---- MODULE Spec2Model ----
(***************************************************************************)
(* Model of the Moroccan Parliament legislation scraper                    *)
(* (src/src/moroccan_parliament_scraper/core/legislation_scraper.py).      *)
(*                                                                         *)
(* Strings of the program are sequences of one-character strings, so that  *)
(* substring tests and the regular expressions of the source are computed  *)
(* and not assumed.                                                        *)
(***************************************************************************)
EXTENDS Integers, Sequences, FiniteSets, TLC

VARIABLES
    \* the orchestrator and the crawl (MoroccanParliamentScraper.run)
    pc,                 \* position of run(): "idle", "resolve", "list", "items", "ministry", "finish", "done"
    runs,               \* number of runs started so far
    force,              \* self.force_rescrape of the current run
    max_pages,          \* the argument max_pages of the current run
    current_year,       \* self.current_year ("None" until resolved)
    current_year_id,    \* self.current_year_id ("None" until resolved)
    disk,               \* data/extracted-data-<year>.json of the resolved year
    remote,             \* the listing pages the site serves, fixed once served
    ci,                 \* index in commission_approaches of the current pass
    page,               \* the local  page  of the paging loop (1-based)
    pending,            \* legislation_items of the current page not yet iterated
    found_urls,         \* the set  found_urls  of the current pass
    commission_results, \* the list  commission_results  of the current pass
    results,            \* self.results
    mi,                 \* index in ministry_approaches of the ministry sweep
    ret,                \* outcome of run(): "none", "True", "False", "raised"
    summary,            \* print_summary() has printed the summary of a non-empty result list
    \* history of the current and the previous run
    diskAtStart,        \* the snapshot file as it was when the run started
    nListing,           \* filtered listing fetches (commission and ministry) issued by the run
    nDetail,            \* detail-page fetches issued by the run
    nAppended,          \* records the crawl appended to its result list in the run
    failed,             \* some fetch of the run failed after its retries
    wrote,              \* the write of the run: "none", "complete" or "failed"
    prev,               \* force, wrote and failed of the previous run
    faults,             \* fetches and writes that have failed so far, over all runs
    lastFetch,          \* the latest fetch of the run, and whether a delay followed it
    \* extract_law_number
    lawText,            \* the text argument
    lawCalled,          \* whether the call has returned
    lawOut,             \* the returned string
    \* check_existing_data called on its own
    chkForce,           \* self.force_rescrape
    chkFile,            \* the snapshot file of the resolved year
    chkN,               \* the law_number argument
    chkCalled,          \* whether the call has returned
    chkOut,             \* the returned value
    \* extract_legislation_page_details called for one listing item
    detLabel,           \* the text of the anchor of the item
    detPage,            \* the detail page of the item
    detCalled,          \* whether the call has returned
    detOut,             \* the returned details (or None)
    detStages,          \* the keys premiere_lecture and deuxieme_lecture of the details
    \* extract_rapport_section called on its own
    rapPage,            \* the detail page
    rapCalled,          \* whether the call has returned
    rapOut,             \* the returned rapport_data (or None)
    \* _make_request
    retry_attempts,     \* request_settings.retry_attempts of the configuration
    enable_proxies,     \* proxy_settings.enable_proxies
    proxy_rotation,     \* proxy_settings.proxy_rotation
    proxies,            \* the number of proxies of the configuration
    current_proxy_index,\* self.current_proxy_index
    reqPc,              \* "idle", "get" (a GET is due), "returned" or "raised"
    retry_count,        \* the argument retry_count of the call in progress
    gets,               \* GET attempts issued
    rotations,          \* calls of _rotate_proxy
    slept,              \* seconds slept
    reported,           \* the number of attempts the failure message reports
    session_proxy,      \* the index in the proxy list of the proxy in session.proxies
    fetches,            \* calls of _make_request made so far
    \* get_current_legislative_year called on its own
    yrPage,             \* the listing page as the function sees it
    yrCalled,           \* whether the call has returned
    yrOut               \* the returned value with the year and the year id set

crawlVars == <<pc, runs, force, max_pages, current_year, current_year_id, disk, remote, ci, page, pending, found_urls,
               commission_results, results, mi, ret, summary>>

histVars == <<diskAtStart, nListing, nDetail, nAppended, failed, wrote, prev, faults,
              lastFetch>>

lawVars == <<lawText, lawCalled, lawOut>>

chkVars == <<chkForce, chkFile, chkN, chkCalled, chkOut>>

detVars == <<detLabel, detPage, detCalled, detOut, detStages>>

rapVars == <<rapPage, rapCalled, rapOut>>

reqVars == <<retry_attempts, enable_proxies, proxy_rotation, proxies, current_proxy_index,
             reqPc, retry_count, gets, rotations, slept, reported, session_proxy, fetches>>

yrVars == <<yrPage, yrCalled, yrOut>>

pureVars == <<lawVars, chkVars, detVars, rapVars, reqVars, yrVars>>

vars == <<crawlVars, histVars, yrVars, pureVars>>



----------------------------------------------------------------------------
(* Characters and strings *)

Digits == {"0", "1", "2", "3", "4", "5", "6", "7", "8", "9"}

Whitespace == {" ", "\t", "\n"}

\* the character of s at position i, or "" past either end
CharAt(s, i) == IF i >= 1 /\ i <= Len(s) THEN s[i] ELSE ""

\* needle occurs in hay starting at position i
OccursAt(needle, hay, i) ==
    /\ i >= 1
    /\ i + Len(needle) - 1 <= Len(hay)
    /\ SubSeq(hay, i, i + Len(needle) - 1) = needle

\* Python's  needle in hay  on strings
Contains(hay, needle) == \E i \in 1..(Len(hay) + 1) : OccursAt(needle, hay, i)

RECURSIVE Flatten(_)
\* concatenation of a sequence of strings
Flatten(ss) == IF ss = <<>> THEN <<>> ELSE Head(ss) \o Flatten(Tail(ss))

----------------------------------------------------------------------------
(* extract_law_number: re.search of four patterns, tried in list order *)

RECURSIVE DigitRun(_, _)
\* length of the longest run of digits of s that starts at position i (\d+ is greedy)
DigitRun(s, i) == IF CharAt(s, i) \in Digits THEN 1 + DigitRun(s, i + 1) ELSE 0

RECURSIVE SkipSpaces(_, _)
\* first position at or after i that holds no whitespace (\s* is greedy)
SkipSpaces(s, i) == IF CharAt(s, i) \in Whitespace THEN SkipSpaces(s, i + 1) ELSE i

\* (\d+<sep>\d+) anchored at position i: the captured group, or <<>> when it does not match.
\* A shorter first run of digits is followed by a digit, never by sep, so backtracking
\* cannot make the group match where the longest run fails.
MatchNumber(s, i, sep) ==
    LET d1 == DigitRun(s, i)
        d2 == DigitRun(s, i + d1 + 1)
    IN  IF d1 >= 1 /\ CharAt(s, i + d1) = sep /\ d2 >= 1
        THEN SubSeq(s, i, i + d1 + d2)
        ELSE <<>>

\* one pattern anchored at position i: group(1), or <<>> when it does not match there
MatchAt(pat, s, i) ==
    IF pat.prefixed
    THEN IF CharAt(s, i) = "N" /\ CharAt(s, i + 1) = "°"
         THEN MatchNumber(s, SkipSpaces(s, i + 2), pat.sep)
         ELSE <<>>
    ELSE MatchNumber(s, i, pat.sep)

RECURSIVE SearchFrom(_, _, _)
\* re.search(pattern, s): group(1) of the leftmost match at or after position i, else <<>>
SearchFrom(pat, s, i) ==
    IF i > Len(s) THEN <<>>
    ELSE IF MatchAt(pat, s, i) # <<>> THEN MatchAt(pat, s, i)
    ELSE SearchFrom(pat, s, i + 1)

\* a plausible slip: the bare forms are tried before the N°-prefixed ones
patterns_bare_first ==
    << [prefixed |-> FALSE, sep |-> "."],
       [prefixed |-> FALSE, sep |-> "/"],
       [prefixed |-> TRUE,  sep |-> "."],
       [prefixed |-> TRUE,  sep |-> "/"] >>

\* the list  patterns  of extract_law_number, in its order
patterns ==
    << [prefixed |-> TRUE,  sep |-> "."],
       [prefixed |-> TRUE,  sep |-> "/"],
       [prefixed |-> FALSE, sep |-> "."],
       [prefixed |-> FALSE, sep |-> "/"] >>

RECURSIVE FirstPatternMatch(_, _)
\* the for loop over patterns from index k on: the first pattern that matches returns
FirstPatternMatch(text, k) ==
    IF k > Len(patterns) THEN <<>>
    ELSE IF SearchFrom(patterns[k], text, 1) # <<>> THEN SearchFrom(patterns[k], text, 1)
    ELSE FirstPatternMatch(text, k + 1)

extract_law_number(text) == FirstPatternMatch(text, 1)

----------------------------------------------------------------------------
(* Text of listing labels *)

RECURSIVE SplitWords(_, _)
\* str.split(): the maximal runs of non-whitespace characters of s; cur is the run
\* being read
SplitWords(s, cur) ==
    IF s = <<>> THEN (IF cur = <<>> THEN <<>> ELSE <<cur>>)
    ELSE IF Head(s) \in Whitespace
         THEN (IF cur = <<>> THEN <<>> ELSE <<cur>>) \o SplitWords(Tail(s), <<>>)
         ELSE SplitWords(Tail(s), Append(cur, Head(s)))

RECURSIVE JoinWords(_)
\* ' '.join(words)
JoinWords(ws) ==
    IF ws = <<>> THEN <<>>
    ELSE IF Len(ws) = 1 THEN Head(ws)
    ELSE Head(ws) \o <<" ">> \o JoinWords(Tail(ws))

\* clean_title: ' '.join(title.split())
clean_title(title) == JoinWords(SplitWords(title, <<>>))

RECURSIVE Strip(_)
\* get_text(strip=True) of an anchor with one text node: str.strip()
Strip(s) ==
    IF s = <<>> THEN <<>>
    ELSE IF Head(s) \in Whitespace THEN Strip(Tail(s))
    ELSE IF s[Len(s)] \in Whitespace THEN Strip(SubSeq(s, 1, Len(s) - 1))
    ELSE s

Lecture1 == <<"L", "e", "c", "t", "u", "r", "e", " ", "1">>

Lecture2 == <<"L", "e", "c", "t", "u", "r", "e", " ", "2">>

\* detect_lecture_type
detect_lecture_type(title) ==
    IF Contains(title, Lecture2) THEN "Lecture 2"
    ELSE IF Contains(title, Lecture1) THEN "Lecture 1"
    ELSE "Unknown"

----------------------------------------------------------------------------
(* URLs: an href is a path, absolute (scheme and host of the site given) or
   site-relative *)

\* self.base_url
base_url == "https://www.chambredesrepresentants.ma"

\* urljoin(self.base_url, href): a site-relative path is resolved against the base, an
\* absolute URL of the site is kept
urljoin(base, href) == IF href.host = "" THEN [host |-> base, path |-> href.path] ELSE href

RelHref(p) == [host |-> "", path |-> p]

AbsHref(p) == [host |-> base_url, path |-> p]

----------------------------------------------------------------------------
(* The filter lists of scrape_current_year_legislation *)

commission_approaches ==
    << [commissions_id |-> "All", description |-> "All commissions"],
       [commissions_id |-> "63", description |-> "Commission des Pétitions"],
       [commissions_id |-> "64", description |-> "Commission des affaires étrangères, de la défense nationale, des affaires islamiques, des affaires de la migration et des MRE"],
       [commissions_id |-> "65", description |-> "Commission de l'intérieur, des collectivités territoriales, de l'habitat, de la politique de la ville et des affaires administratives"],
       [commissions_id |-> "66", description |-> "Commission de justice, de législation, des droits de l'homme et des libertés"],
       [commissions_id |-> "67", description |-> "Commission des finances et du développement économique"],
       [commissions_id |-> "68", description |-> "Commission des secteurs sociaux"],
       [commissions_id |-> "69", description |-> "Commission des secteurs productifs"],
       [commissions_id |-> "70", description |-> "Commission des infrastructures, de l'énergie, des mines, de l'environnement et du développement durable"],
       [commissions_id |-> "71", description |-> "Commission de l'enseignement, de la culture et de la communication"],
       [commissions_id |-> "72", description |-> "Commission du contrôle des finances publiques et de la gouvernance"] >>

ministry_approaches ==
    << [ministry_id |-> "All", description |-> "All ministries"],
       [ministry_id |-> "1", description |-> "Economie et finances"],
       [ministry_id |-> "2", description |-> "Éducation nationale"],
       [ministry_id |-> "3", description |-> "Énergie et mines"],
       [ministry_id |-> "4", description |-> "Équipement et transport"],
       [ministry_id |-> "5", description |-> "Habous et des affaires islamiques"],
       [ministry_id |-> "6", description |-> "Emploi et formation professionnelle"],
       [ministry_id |-> "7", description |-> "Enseignement supérieur, recherche scientifique et formation des cadres"],
       [ministry_id |-> "8", description |-> "Agriculture et pêche maritime"],
       [ministry_id |-> "9", description |-> "Chef du Gouvernement"],
       [ministry_id |-> "10", description |-> "Communication"],
       [ministry_id |-> "11", description |-> "Culture"],
       [ministry_id |-> "12", description |-> "Affaires étrangères et coopération"],
       [ministry_id |-> "13", description |-> "Artisanat"],
       [ministry_id |-> "14", description |-> "Énergie, mines, eau et environnement"],
       [ministry_id |-> "15", description |-> "Secrétariat Général du Gouvernement"],
       [ministry_id |-> "16", description |-> "Habitat, urbanisme et politique de la ville"],
       [ministry_id |-> "17", description |-> "Santé"],
       [ministry_id |-> "18", description |-> "Industrie, commerce et nouvelles technologies"],
       [ministry_id |-> "19", description |-> "Intérieur"],
       [ministry_id |-> "20", description |-> "Jeunesse et sports"],
       [ministry_id |-> "21", description |-> "Justice et libertés"],
       [ministry_id |-> "22", description |-> "Ministre de l'industrie, du commerce, de l'investissement et de l'économie numérique"],
       [ministry_id |-> "23", description |-> "Ministre de l'éducation nationale et de la formation professionnelle"],
       [ministry_id |-> "24", description |-> "Ministre de l'équipement, du transport et de la logistique"],
       [ministry_id |-> "25", description |-> "Ministre de l'habitat et de la politique de la ville"],
       [ministry_id |-> "26", description |-> "Ministre de l'emploi et des affaires sociales"],
       [ministry_id |-> "27", description |-> "Ministre de l'artisanat et de l'économie sociale et solidaire"],
       [ministry_id |-> "28", description |-> "Ministre chargé des marocains résidant à l'étranger et des affaires de la migration"],
       [ministry_id |-> "29", description |-> "Ministre de l'urbanisme et de l'aménagement du territoire national"],
       [ministry_id |-> "30", description |-> "Ministre chargé des relations avec le Parlement et la société civile"],
       [ministry_id |-> "31", description |-> "Solidarité, femme, famille et développement social"],
       [ministry_id |-> "32", description |-> "Tourisme"] >>

\* the model sweeps the first NumCommissions commission filters and the first
\* NumMinistries ministry filters of the lists, pages up to page MaxPage, and starts
\* MaxRuns runs
NumCommissions == 2

NumMinistries == 2

MaxPage == 2

MaxRuns == 2

\* at most MaxFaults fetches or writes fail in a behaviour
MaxFaults == 1

----------------------------------------------------------------------------
(* What the site serves *)

\* anchors of a listing page that extract_legislation_items keeps: a bill with a law
\* number, a bill whose label has no number, and a bill link without any text
AnchorA ==
    [href |-> RelHref("/fr/legislation/projet-de-loi-a"),
     text |-> <<"N", "°", "0", "3", ".", "2", "5", " ", " ">> \o Lecture1]

AnchorC ==
    [href |-> RelHref("/fr/legislation/projet-de-loi-c"),
     text |-> <<"L", "o", "i", " ">> \o Lecture2]

AnchorU ==
    [href |-> RelHref("/fr/legislation/projet-de-loi-u"), text |-> <<>>]

Anchors == {AnchorA, AnchorC, AnchorU}

\* a listing page not yet served
Unserved == [served |-> FALSE, marker |-> FALSE, anchors |-> <<>>]

\* the listing pages a commission filter can serve: one with the marker
\* "Il n' y a pas de contenu" (and a bill link beside it), one without any bill link,
\* one for each anchor alone, one with the same anchor twice, one with two anchors
ListingPages ==
    { [served |-> TRUE, marker |-> TRUE, anchors |-> <<AnchorA>>],
      [served |-> TRUE, marker |-> FALSE, anchors |-> <<>>],
      [served |-> TRUE, marker |-> FALSE, anchors |-> <<AnchorA>>],
      [served |-> TRUE, marker |-> FALSE, anchors |-> <<AnchorC>>],
      [served |-> TRUE, marker |-> FALSE, anchors |-> <<AnchorU>>],
      [served |-> TRUE, marker |-> FALSE, anchors |-> <<AnchorA, AnchorA>>],
      [served |-> TRUE, marker |-> FALSE, anchors |-> <<AnchorC, AnchorA>>] }

\* the pages a ministry filter can serve: the marker, or anchors given by their href
MinistryPages ==
    { [marker |-> TRUE, hrefs |-> <<>>],
      [marker |-> FALSE, hrefs |-> <<AnchorA.href>>],
      [marker |-> FALSE, hrefs |-> <<AbsHref(AnchorA.href.path)>>] }

----------------------------------------------------------------------------
(* The snapshot file *)

NoFile == [kind |-> "absent", total_items |-> 0, data |-> <<>>]

\* a file json.load cannot read (a write that stopped part-way leaves one)
Unreadable == [kind |-> "unreadable", total_items |-> 0, data |-> <<>>]

\* what save_results writes: the metadata around self.results
Snapshot(recs) == [kind |-> "snapshot", total_items |-> Len(recs), data |-> recs]

\* the set of law numbers of a list of records
LawNumbersOf(recs) == { recs[i].law_number : i \in 1..Len(recs) }

\* a plausible slip: the force_rescrape test is missing
check_existing_data_no_force(f, file, law_number) ==
    IF law_number = <<>> THEN FALSE
    ELSE IF file.kind = "absent" THEN FALSE
    ELSE IF file.kind = "unreadable" THEN FALSE
    ELSE \E i \in 1..Len(file.data) : file.data[i].law_number = law_number

\* a plausible slip: the test of an empty law_number is missing
check_existing_data_empty_matches(f, file, law_number) ==
    IF f THEN FALSE
    ELSE IF file.kind = "absent" THEN FALSE
    ELSE IF file.kind = "unreadable" THEN FALSE
    ELSE \E i \in 1..Len(file.data) : file.data[i].law_number = law_number

\* check_existing_data, with self.force_rescrape and the file as arguments
check_existing_data(f, file, law_number) ==
    IF f THEN FALSE
    ELSE IF law_number = <<>> THEN FALSE
    ELSE IF file.kind = "absent" THEN FALSE
    ELSE IF file.kind = "unreadable" THEN FALSE
    ELSE \E i \in 1..Len(file.data) : file.data[i].law_number = law_number

----------------------------------------------------------------------------
(* Listing items and records *)

\* the value None of a function that returns a dict or None
NoData == [ok |-> FALSE, url |-> RelHref(""), title |-> <<>>, law_number |-> <<>>,
           full_title |-> <<>>]

\* extract_legislation_data: None for an anchor without href or without text
extract_legislation_data(item) ==
    LET title == Strip(item.text)
    IN  IF item.href.host = "" /\ item.href.path = "" THEN NoData
        ELSE IF title = <<>> THEN NoData
        ELSE [ok |-> TRUE,
              url |-> urljoin(base_url, item.href),
              title |-> clean_title(title),
              law_number |-> extract_law_number(title),
              full_title |-> title]

NoDetails == [ok |-> FALSE, title |-> <<>>, law_number |-> <<>>, full_title |-> <<>>,
              has_stage |-> FALSE, stage |-> "(absent)",
              commission |-> "", commission_id |-> "", ministry_id |-> ""]

\* the text of the h1 of the detail pages the site serves
PageH1 == <<"P", "r", "o", "j", "e", "t">>

\* extract_legislation_page_details: None when the fetch of the detail page fails,
\* else the details; the key  stage  is set only in the two branches of the if;
\* full_title is the text of the h1, and the details carry empty identity keys
extract_legislation_page_details(fetch_ok, listing_title) ==
    IF ~fetch_ok THEN NoDetails
    ELSE [ok |-> TRUE,
          title |-> IF listing_title # <<>> THEN clean_title(listing_title) ELSE <<>>,
          law_number |-> IF listing_title # <<>> THEN extract_law_number(listing_title)
                         ELSE <<>>,
          full_title |-> PageH1,
          has_stage |-> Contains(listing_title, Lecture2) \/ Contains(listing_title, Lecture1),
          stage |-> IF Contains(listing_title, Lecture2) THEN "Lecture 2"
                    ELSE IF Contains(listing_title, Lecture1) THEN "Lecture 1"
                    ELSE "(absent)",
          commission |-> "", commission_id |-> "", ministry_id |-> ""]

\* a plausible slip: the identity of the pass is set before the page details are merged
NewRecord_details_last(ld, pd, commission, pg) ==
    [url |-> ld.url,
     title |-> IF pd.ok THEN pd.title ELSE ld.title,
     law_number |-> IF pd.ok THEN pd.law_number ELSE ld.law_number,
     full_title |-> IF pd.ok THEN pd.full_title ELSE ld.full_title,
     stage |-> IF pd.ok /\ pd.has_stage THEN pd.stage ELSE "(absent)",
     detailed |-> pd.ok,
     page |-> pg,
     scraped_at |-> "now",
     commission |-> IF pd.ok THEN pd.commission ELSE commission.description,
     commission_id |-> IF pd.ok THEN pd.commission_id ELSE commission.commissions_id,
     ministry |-> "To be identified",
     ministry_id |-> IF pd.ok THEN pd.ministry_id ELSE "To be identified"]

\* the record appended to commission_results: legislation_data, updated with the page
\* details when there are any, then with page, scraped_at and the identity of the pass
NewRecord(ld, pd, commission, pg) ==
    [url |-> ld.url,
     title |-> IF pd.ok THEN pd.title ELSE ld.title,
     law_number |-> IF pd.ok THEN pd.law_number ELSE ld.law_number,
     full_title |-> IF pd.ok THEN pd.full_title ELSE ld.full_title,
     stage |-> IF pd.ok /\ pd.has_stage THEN pd.stage ELSE "(absent)",
     detailed |-> pd.ok,
     page |-> pg,
     scraped_at |-> "now",
     commission |-> commission.description,
     commission_id |-> commission.commissions_id,
     ministry |-> "To be identified",
     ministry_id |-> "To be identified"]

\* legislation_map: the dict comprehension keeps, for each url, the last record with it
InLegislationMap(recs, i) == \A j \in (i + 1)..Len(recs) : recs[j].url # recs[i].url

\* the loop over the links of one ministry page:  href in legislation_map  compares the
\* raw href with the absolute url of the record
ApplyMinistry(recs, hrefs, ministry) ==
    [i \in 1..Len(recs) |->
        IF InLegislationMap(recs, i) /\ \E k \in 1..Len(hrefs) : hrefs[k] = recs[i].url
        THEN [recs[i] EXCEPT !.ministry = ministry.description,
                             !.ministry_id = ministry.ministry_id]
        ELSE recs[i]]

----------------------------------------------------------------------------
(* The detail page of a bill: its dp-block sections and its rapport headings *)

\* the value {} of commission_data and of a block without submission
NoSubmission == [commission_name |-> "", submission_date |-> ""]

SubmissionX ==
    [commission_name |-> "Commission des secteurs sociaux",
     submission_date |-> "Vendredi 11 juillet 2025"]

SubmissionY ==
    [commission_name |-> "Commission des secteurs productifs",
     submission_date |-> "Mardi 22 juillet 2025"]

SubmissionZ ==
    [commission_name |-> "Commission des finances et du développement économique",
     submission_date |-> "Vendredi 25 juillet 2025"]

\* a div of class dp-block, given by what its text contains:
\*   bureau        'Bureau de la Chambre' in block_text
\*   transferred   'Il a été transféré à la Chambre le' in block_text
\*   transfer_date group(1) of the transfer pattern ("" when it does not match)
\*   soumis        'Commission' in block_text and 'Soumis à Commission' in block_text
\*   submission    the tuple of the first of the submission patterns that matches
\*                 (NoSubmission when none does)
\*   seance        'Séance plénière' in block_text
DpBlock(b, t, td, s, sub, se) ==
    [bureau |-> b, transferred |-> t, transfer_date |-> td, soumis |-> s,
     submission |-> sub, seance |-> se]

\* the block of the deposit at the Bureau
BureauDepot == DpBlock(TRUE, FALSE, "", FALSE, NoSubmission, FALSE)

\* the block of the Bureau that carries the transfer marker
BureauTransfer == DpBlock(TRUE, TRUE, "Mardi 3 juin 2025", FALSE, NoSubmission, FALSE)

SoumisBlock(sub) == DpBlock(FALSE, FALSE, "", TRUE, sub, FALSE)

SeanceBlock == DpBlock(FALSE, FALSE, "", FALSE, NoSubmission, TRUE)

DpBlocks ==
    { BureauDepot, BureauTransfer, SoumisBlock(SubmissionX), SoumisBlock(SubmissionY),
      SoumisBlock(SubmissionZ), SeanceBlock }

\* a link of a container: its href and whether the href ends in .pdf
PdfLink(h, t) == [href |-> h, pdf |-> TRUE, text |-> t]

HtmlLink(h, t) == [href |-> h, pdf |-> FALSE, text |-> t]

\* the container divs of a detail page: one with the same PDF linked by a relative and by
\* an absolute href, one with another PDF and a link that is no PDF, one without link
Containers ==
    << << PdfLink(RelHref("/sites/default/files/rapport-a.pdf"), "Rapport A"),
          PdfLink(AbsHref("/sites/default/files/rapport-a.pdf"), "Rapport A (bis)") >>,
       << PdfLink(RelHref("/sites/default/files/rapport-b.pdf"), "Rapport B"),
          HtmlLink(RelHref("/fr/rapports"), "Tous les rapports") >>,
       << >> >>

\* a heading of the page: its tag ("h3.section-title", "h4", or another heading tag),
\* whether its string matches  Rapport de.*  and the container div the lookup of the
\* container reaches from it (0 when it reaches none)
Heading(tag, r, k) ==
    [tag |-> tag, rapport |-> r, title |-> "Rapport de la commission", container |-> k]

\* a detail page: the dp-blocks, the headings and the containers, in document order
DetailPage(bs, hs) == [blocks |-> bs, headings |-> hs, containers |-> Containers]

EmptyPage == DetailPage(<<>>, <<>>)

\* the value None of extract_rapport_section
NoRapport == [ok |-> FALSE, section_title |-> "", files |-> <<>>]

RECURSIVE SectionFiles(_, _)
\* the loop over file_links of one section: the links whose href ends in .pdf, one
\* file_info for each resolved url not yet in seen_files
SectionFiles(links, seen_files) ==
    IF links = <<>> THEN <<>>
    ELSE LET link == Head(links)
             file_url == urljoin(base_url, link.href)
         IN  IF ~link.pdf THEN SectionFiles(Tail(links), seen_files)
             ELSE IF file_url \in seen_files THEN SectionFiles(Tail(links), seen_files)
             ELSE <<[title |-> link.text, url |-> file_url]>>
                  \o SectionFiles(Tail(links), seen_files \cup {file_url})

RECURSIVE RapportFiles(_, _)
\* the loop over rapport_sections: seen_files is a new empty set for each section that
\* has a container, and the files of every section are appended to the same list
RapportFiles(sections, containers) ==
    IF sections = <<>> THEN <<>>
    ELSE (IF Head(sections).container # 0
          THEN SectionFiles(containers[Head(sections).container], {})
          ELSE <<>>)
         \o RapportFiles(Tail(sections), containers)

\* rapport_sections: the h3 of class section-title whose string matches, then the h4
\* whose string matches; when there is none, every heading whose text matches
RapportSections(headings) ==
    LET h3_sections == SelectSeq(headings,
                           LAMBDA h : h.tag = "h3.section-title" /\ h.rapport)
        h4_sections == SelectSeq(headings, LAMBDA h : h.tag = "h4" /\ h.rapport)
    IN  IF h3_sections \o h4_sections # <<>> THEN h3_sections \o h4_sections
        ELSE SelectSeq(headings, LAMBDA h : h.rapport)

\* extract_rapport_section: None without rapport section or without file, else the title
\* of the last section and the files
extract_rapport_section(dpage) ==
    LET rapport_sections == RapportSections(dpage.headings)
        files == RapportFiles(rapport_sections, dpage.containers)
    IN  IF rapport_sections = <<>> THEN NoRapport
        ELSE IF files = <<>> THEN NoRapport
        ELSE [ok |-> TRUE,
              section_title |-> rapport_sections[Len(rapport_sections)].title,
              files |-> files]

RECURSIVE commission_submissions(_)
\* commission_submissions: the tuples of the blocks the elif of the Commission block
\* takes, in document order
commission_submissions(blocks) ==
    IF blocks = <<>> THEN <<>>
    ELSE LET block == Head(blocks)
         IN  (IF ~block.bureau /\ block.soumis /\ block.submission # NoSubmission
              THEN <<block.submission>> ELSE <<>>)
             \o commission_submissions(Tail(blocks))

RECURSIVE TransferDate(_, _)
\* deuxieme_lecture_data['transfer_date'] after the loop over the blocks ("" when the
\* key is not set): every Bureau block whose transfer pattern matches sets it
TransferDate(blocks, date) ==
    IF blocks = <<>> THEN date
    ELSE LET block == Head(blocks)
         IN  TransferDate(Tail(blocks),
                          IF block.bureau /\ block.transferred /\ block.transfer_date # ""
                          THEN block.transfer_date ELSE date)

\* the details of a failed call, and of a page without any block
NoStages ==
    [premiere_lecture |-> FALSE, bureau_de_la_chambre |-> FALSE, commission_key |-> FALSE,
     commission |-> NoSubmission, seance_pleniere |-> FALSE,
     deuxieme_lecture |-> FALSE, transfer_date |-> "", commission2_key |-> FALSE,
     commission2 |-> NoSubmission, rapport_section |-> NoRapport]

\* extract_legislation_page_details from the dp-blocks on: the keys premiere_lecture and
\* deuxieme_lecture of the details and what they hold.  premiere_lecture is set by a
\* Bureau block without transfer marker (with the keys bureau_de_la_chambre and
\* commission) or by a Séance plénière block; deuxieme_lecture is set when
\* deuxieme_lecture_data is not empty
lecture_stages(fetch_ok, listing_title, dpage) ==
    LET lecture_type == detect_lecture_type(listing_title)
        blocks == dpage.blocks
        subs == commission_submissions(blocks)
        bureau_data == \E i \in 1..Len(blocks) :
                           blocks[i].bureau /\ ~blocks[i].transferred
        seance_data == \E i \in 1..Len(blocks) :
                           ~blocks[i].bureau /\ ~blocks[i].soumis /\ blocks[i].seance
        commission_data == IF lecture_type \in {"Lecture 1", "Lecture 2"} /\ Len(subs) >= 1
                           THEN subs[1] ELSE NoSubmission
        transfer_date == TransferDate(blocks, "")
        second == lecture_type = "Lecture 2" /\ Len(subs) >= 2
        rapport_data == IF lecture_type = "Lecture 2" THEN extract_rapport_section(dpage)
                        ELSE NoRapport
    IN  IF ~fetch_ok THEN NoStages
        ELSE [premiere_lecture |-> bureau_data \/ seance_data,
              bureau_de_la_chambre |-> bureau_data,
              commission_key |-> bureau_data,
              commission |-> IF bureau_data THEN commission_data ELSE NoSubmission,
              seance_pleniere |-> seance_data,
              deuxieme_lecture |-> transfer_date # "" \/ second \/ rapport_data.ok,
              transfer_date |-> transfer_date,
              commission2_key |-> second,
              commission2 |-> IF second THEN subs[2] ELSE NoSubmission,
              rapport_section |-> rapport_data]

----------------------------------------------------------------------------
(* The run *)

\* no fetch was issued yet
NoFetch == [kind |-> "none", filter |-> 0, index |-> 0, delayed |-> FALSE, hrefs |-> <<>>]

\* a fetch: its kind ("year", "listing", "detail" or "ministry"), the index in its list of
\* the filter and the value of the parameter  page  of the latest listing request, whether
\* time.sleep(delay) was called after it, and the hrefs of the links of a ministry page
Fetched(kind, filter, index, delayed, hrefs) ==
    [kind |-> kind, filter |-> filter, index |-> index, delayed |-> delayed,
     hrefs |-> hrefs]

NoPrev == [force |-> FALSE, wrote |-> "none", failed |-> FALSE, ran |-> FALSE]

\* extract_law_number is not under test
LawIdle == lawText = <<>> /\ lawCalled = FALSE /\ lawOut = <<>>

\* check_existing_data is not under test
ChkIdle ==
    /\ chkForce = FALSE /\ chkFile = NoFile /\ chkN = <<>>
    /\ chkCalled = FALSE /\ chkOut = FALSE

\* extract_legislation_page_details is not under test
DetIdle ==
    /\ detLabel = <<>> /\ detPage = EmptyPage /\ detCalled = FALSE
    /\ detOut = NoDetails /\ detStages = NoStages

\* extract_rapport_section is not under test
RapIdle == rapPage = EmptyPage /\ rapCalled = FALSE /\ rapOut = NoRapport

\* _make_request is not under test: the configuration is the default one
ReqIdle ==
    /\ retry_attempts = 3 /\ enable_proxies = FALSE /\ proxy_rotation = TRUE
    /\ proxies = 2 /\ current_proxy_index = 0
    /\ reqPc = "idle" /\ retry_count = 0 /\ gets = 0 /\ rotations = 0 /\ slept = 0
    /\ reported = 0 /\ session_proxy = -1 /\ fetches = 0

\* get_current_legislative_year is not under test
YrIdle ==
    /\ yrPage = [fetch_ok |-> FALSE, has_select |-> FALSE, options |-> <<>>]
    /\ yrCalled = FALSE
    /\ yrOut = [ok |-> FALSE, current_year |-> "None", current_year_id |-> "None"]

\* no run is in progress: the crawl is as constructed
CrawlIdle ==
    /\ pc = "idle"
    /\ runs = 0
    /\ force = FALSE
    /\ max_pages = 5
    /\ current_year = "None"
    /\ current_year_id = "None"
    /\ disk = NoFile
    /\ remote = [c \in 1..NumCommissions, p \in 1..MaxPage |-> Unserved]
    /\ ci = 0
    /\ page = 0
    /\ pending = <<>>
    /\ found_urls = {}
    /\ commission_results = <<>>
    /\ results = <<>>
    /\ mi = 0
    /\ ret = "none"
    /\ summary = FALSE
    /\ diskAtStart = NoFile
    /\ nListing = 0
    /\ nDetail = 0
    /\ nAppended = 0
    /\ failed = FALSE
    /\ wrote = "none"
    /\ prev = NoPrev
    /\ faults = 0
    /\ lastFetch = NoFetch

Init == CrawlIdle /\ LawIdle /\ ChkIdle /\ DetIdle /\ RapIdle /\ ReqIdle /\ YrIdle

\* the values of max_pages of the requests: one page, and the default of the service
MaxPagesArgs == {1, 5}

\* a new scraper is constructed and run(max_pages=mp, force_rescrape=f) is entered
StartRun(f, mp) ==
    /\ pc \in {"idle", "done"}
    /\ lastFetch' = NoFetch
    /\ runs < MaxRuns
    /\ pc' = "resolve"
    /\ runs' = runs + 1
    /\ force' = f
    /\ max_pages' = mp
    /\ current_year' = "None"
    /\ current_year_id' = "None"
    /\ results' = <<>>
    /\ ret' = "none"
    /\ summary' = FALSE
    /\ ci' = 0 /\ page' = 0 /\ mi' = 0
    /\ pending' = <<>> /\ found_urls' = {} /\ commission_results' = <<>>
    /\ diskAtStart' = disk
    /\ nListing' = 0 /\ nDetail' = 0 /\ nAppended' = 0
    /\ failed' = FALSE /\ wrote' = "none"
    /\ prev' = IF runs = 0 THEN NoPrev
               ELSE [force |-> force, wrote |-> wrote, failed |-> failed, ran |-> TRUE]
    /\ UNCHANGED <<disk, remote, faults, pureVars>>

\* the year of the system date (datetime.now().year)
NowYear == 2026

Sentinel == [value |-> "All", text |-> "- Tout -"]

\* the listing page as get_current_legislative_year sees it: whether its fetch succeeds,
\* whether it has the select  field_annee_legislative_target_id, and the options of it
YearPages ==
    { [fetch_ok |-> FALSE, has_select |-> FALSE, options |-> <<>>],
      [fetch_ok |-> TRUE, has_select |-> FALSE, options |-> <<>>],
      [fetch_ok |-> TRUE, has_select |-> TRUE, options |-> <<>>],
      [fetch_ok |-> TRUE, has_select |-> TRUE,
       options |-> <<Sentinel, [value |-> "55", text |-> "2026-2027"],
                     [value |-> "54", text |-> "2025-2026"]>>] }

Unresolved == [ok |-> FALSE, current_year |-> "None", current_year_id |-> "None"]

\* a plausible slip: the "All" options are not skipped
FirstYearOption_unfiltered(options, i) ==
    IF i > Len(options) THEN 0 ELSE i

RECURSIVE FirstYearOption(_, _)
\* the loop over year_options from index i on: the first option that is not "All"
FirstYearOption(options, i) ==
    IF i > Len(options) THEN 0
    ELSE IF options[i].value = "All" \/ options[i].text = "- Tout -"
         THEN FirstYearOption(options, i + 1)
    ELSE i

\* a plausible slip: a failed resolution is not reported to run()
get_current_legislative_year_unchecked(yp) ==
    [ok |-> TRUE, current_year |-> "None", current_year_id |-> "None"]

\* get_current_legislative_year: False (and no year set) when the fetch raises, the
\* select is missing or it has no option; else the first option that is not "All", or
\* the year computed from the system date
get_current_legislative_year(yp) ==
    IF ~yp.fetch_ok THEN Unresolved
    ELSE IF ~yp.has_select THEN Unresolved
    ELSE IF yp.options = <<>> THEN Unresolved
    ELSE LET i == FirstYearOption(yp.options, 1)
         IN  IF i # 0
             THEN [ok |-> TRUE, current_year |-> yp.options[i].text,
                   current_year_id |-> yp.options[i].value]
             ELSE [ok |-> TRUE,
                   current_year |-> ToString(NowYear) \o "-" \o ToString(NowYear + 1),
                   current_year_id |-> ToString(NowYear)]

\* run(): the year is resolved, or run() returns False
ResolveYear(yp) ==
    /\ pc = "resolve"
    /\ lastFetch' = Fetched("year", 0, 0, FALSE, <<>>)
    /\ ~yp.fetch_ok => faults < MaxFaults
    /\ faults' = IF yp.fetch_ok THEN faults ELSE faults + 1
    /\ failed' = (failed \/ ~yp.fetch_ok)
    /\ LET r == get_current_legislative_year(yp)
       IN  /\ current_year' = r.current_year
           /\ current_year_id' = r.current_year_id
           /\ IF r.ok
              THEN /\ pc' = "list"
                   /\ ci' = 1 /\ page' = 1
                   /\ found_urls' = {} /\ commission_results' = <<>>
                   /\ UNCHANGED ret
              ELSE /\ pc' = "done"
                   /\ ret' = "False"
                   /\ UNCHANGED <<ci, page, found_urls, commission_results>>
    /\ UNCHANGED <<runs, force, max_pages, disk, remote, pending, results, mi, summary,
                   diskAtStart, nListing, nDetail, nAppended, wrote, prev, pureVars>>

\* a plausible slip: the results are saved at the end of every pass
EndPass_saving ==
    /\ disk' = Snapshot(results \o commission_results)
    /\ results' = results \o commission_results
    /\ pending' = <<>>
    /\ found_urls' = {}
    /\ commission_results' = <<>>
    /\ IF ci < NumCommissions
       THEN /\ ci' = ci + 1 /\ page' = 1 /\ pc' = "list" /\ mi' = mi
       ELSE /\ ci' = ci /\ page' = page
            /\ IF results \o commission_results # <<>>
               THEN pc' = "ministry" /\ mi' = 1
               ELSE pc' = "finish" /\ mi' = mi

\* a plausible slip: the ministry sweep does not depend on the results
EndPass_sweeping_always ==
    /\ disk' = disk
    /\ results' = results \o commission_results
    /\ pending' = <<>>
    /\ found_urls' = {}
    /\ commission_results' = <<>>
    /\ IF ci < NumCommissions
       THEN /\ ci' = ci + 1 /\ page' = 1 /\ pc' = "list" /\ mi' = mi
       ELSE /\ ci' = ci /\ page' = page /\ pc' = "ministry" /\ mi' = 1

\* the end of the pass of commission ci (after a break): commission_results are added
\* to self.results and the next pass starts; after the last pass the ministry sweep
\* starts if there are results; nothing is saved here
EndPass ==
    /\ disk' = disk
    /\ results' = results \o commission_results
    /\ pending' = <<>>
    /\ found_urls' = {}
    /\ commission_results' = <<>>
    /\ IF ci < NumCommissions
       THEN /\ ci' = ci + 1 /\ page' = 1 /\ pc' = "list" /\ mi' = mi
       ELSE /\ ci' = ci /\ page' = page
            /\ IF results \o commission_results # <<>>
               THEN pc' = "ministry" /\ mi' = 1
               ELSE pc' = "finish" /\ mi' = mi

\* a plausible slip: the failure of a listing fetch is not caught and ends the crawl
FetchListingFails_raising ==
    /\ pc = "list"
    /\ lastFetch' = Fetched("listing", ci, page - 1, FALSE, <<>>)
    /\ page <= MaxPage
    /\ faults < MaxFaults
    /\ faults' = faults + 1
    /\ nListing' = nListing + 1
    /\ failed' = TRUE
    /\ pc' = "done"
    /\ ret' = "raised"
    /\ UNCHANGED <<runs, force, max_pages, current_year, current_year_id, disk, remote, ci,
                   page, pending, found_urls, commission_results, results, mi, summary,
                   diskAtStart, nDetail, nAppended, wrote, prev, pureVars>>

\* the listing fetch of page  page  of commission ci fails after its retries: the
\* except clause breaks the paging loop
FetchListingFails ==
    /\ pc = "list"
    /\ lastFetch' = Fetched("listing", ci, page - 1, FALSE, <<>>)
    /\ page <= MaxPage
    /\ faults < MaxFaults
    /\ faults' = faults + 1
    /\ nListing' = nListing + 1
    /\ failed' = TRUE
    /\ EndPass
    /\ UNCHANGED <<runs, force, max_pages, current_year, current_year_id, remote, ret, summary,
                   diskAtStart, nDetail, nAppended, wrote, prev, pureVars>>

\* a plausible slip: the marker is not looked for, and the links of the page are processed
FetchListing_ignoring_marker(c) ==
    /\ pc = "list"
    /\ lastFetch' = Fetched("listing", ci, page - 1, c.anchors = <<>>, <<>>)
    /\ page <= MaxPage
    /\ IF remote[ci, page].served THEN c = remote[ci, page] ELSE c \in ListingPages
    /\ remote' = [remote EXCEPT ![ci, page] = c]
    /\ nListing' = nListing + 1
    /\ IF c.anchors # <<>>
       THEN pending' = c.anchors /\ pc' = "items" /\ page' = page
       ELSE pending' = <<>> /\ pc' = "list" /\ page' = page + 1
    /\ UNCHANGED <<ci, found_urls, commission_results, results, mi, disk>>
    /\ UNCHANGED <<runs, force, max_pages, current_year, current_year_id, ret, summary,
                   diskAtStart, nDetail, nAppended, failed, wrote, prev, faults, pureVars>>

\* the listing fetch of page  page  of commission ci succeeds with content c
FetchListing(c) ==
    /\ pc = "list"
    /\ lastFetch' = Fetched("listing", ci, page - 1, ~c.marker /\ c.anchors = <<>>, <<>>)
    /\ page <= MaxPage
    /\ IF remote[ci, page].served THEN c = remote[ci, page] ELSE c \in ListingPages
    /\ remote' = [remote EXCEPT ![ci, page] = c]
    /\ nListing' = nListing + 1
    /\ IF c.marker
       THEN EndPass
       ELSE /\ IF c.anchors # <<>>
               THEN pending' = c.anchors /\ pc' = "items" /\ page' = page
               ELSE pending' = <<>> /\ pc' = "list" /\ page' = page + 1
            /\ UNCHANGED <<ci, found_urls, commission_results, results, mi, disk>>
    /\ UNCHANGED <<runs, force, max_pages, current_year, current_year_id, ret, summary,
                   diskAtStart, nDetail, nAppended, failed, wrote, prev, faults, pureVars>>

\* a plausible slip: the url of the item is not looked up in found_urls
ProcessItem_no_dedup(detail_ok) ==
    /\ pc = "items"
    /\ pending # <<>>
    /\ ~detail_ok => faults < MaxFaults
    /\ faults' = IF detail_ok THEN faults ELSE faults + 1
    /\ LET item == Head(pending)
           ld == extract_legislation_data(item)
           skip == ld.law_number # <<>> /\ check_existing_data(force, disk, ld.law_number)
           pd == extract_legislation_page_details(detail_ok, ld.title)
       IN  /\ found_urls' = IF ld.ok THEN found_urls \cup {ld.url} ELSE found_urls
           /\ lastFetch' = IF ld.ok /\ ~skip
                          THEN Fetched("detail", ci, page - 1, TRUE, <<>>)
                          ELSE [lastFetch EXCEPT !.delayed = @ \/ Tail(pending) = <<>>]
           /\ IF ld.ok /\ ~skip
              THEN /\ commission_results' =
                        Append(commission_results,
                               NewRecord(ld, pd, commission_approaches[ci], page))
                   /\ nDetail' = nDetail + 1
                   /\ nAppended' = nAppended + 1
                   /\ failed' = (failed \/ ~detail_ok)
              ELSE /\ detail_ok
                   /\ UNCHANGED <<commission_results, nDetail, nAppended, failed>>
    /\ pending' = Tail(pending)
    /\ IF Tail(pending) = <<>>
       THEN pc' = "list" /\ page' = page + 1
       ELSE pc' = "items" /\ page' = page
    /\ UNCHANGED <<runs, force, max_pages, current_year, current_year_id, disk, remote, ci,
                   results, mi, ret, summary, diskAtStart, nListing, wrote, prev, pureVars>>

\* a plausible slip: an item whose detail page cannot be had is dropped
ProcessItem_dropping_failed(detail_ok) ==
    /\ pc = "items"
    /\ pending # <<>>
    /\ ~detail_ok => faults < MaxFaults
    /\ faults' = IF detail_ok THEN faults ELSE faults + 1
    /\ LET item == Head(pending)
           ld == extract_legislation_data(item)
           fresh == ld.ok /\ ld.url \notin found_urls
           skip == ld.law_number # <<>> /\ check_existing_data(force, disk, ld.law_number)
           pd == extract_legislation_page_details(detail_ok, ld.title)
       IN  /\ found_urls' = IF fresh THEN found_urls \cup {ld.url} ELSE found_urls
           /\ lastFetch' = IF fresh /\ ~skip
                          THEN Fetched("detail", ci, page - 1, TRUE, <<>>)
                          ELSE [lastFetch EXCEPT !.delayed = @ \/ Tail(pending) = <<>>]
           /\ IF fresh /\ ~skip /\ detail_ok
              THEN /\ commission_results' =
                        Append(commission_results,
                               NewRecord(ld, pd, commission_approaches[ci], page))
                   /\ nDetail' = nDetail + 1
                   /\ nAppended' = nAppended + 1
                   /\ failed' = (failed \/ ~detail_ok)
              ELSE /\ (fresh /\ ~skip) \/ detail_ok
                   /\ UNCHANGED <<commission_results, nDetail, nAppended, failed>>
    /\ pending' = Tail(pending)
    /\ IF Tail(pending) = <<>>
       THEN pc' = "list" /\ page' = page + 1
       ELSE pc' = "items" /\ page' = page
    /\ UNCHANGED <<runs, force, max_pages, current_year, current_year_id, disk, remote, ci,
                   results, mi, ret, summary, diskAtStart, nListing, wrote, prev, pureVars>>

\* one iteration of  for item in legislation_items, the detail fetch succeeding or
\* not; after the last item of the page the next page is up
ProcessItem(detail_ok) ==
    /\ pc = "items"
    /\ pending # <<>>
    /\ ~detail_ok => faults < MaxFaults
    /\ faults' = IF detail_ok THEN faults ELSE faults + 1
    /\ LET item == Head(pending)
           ld == extract_legislation_data(item)
           fresh == ld.ok /\ ld.url \notin found_urls
           skip == ld.law_number # <<>> /\ check_existing_data(force, disk, ld.law_number)
           pd == extract_legislation_page_details(detail_ok, ld.title)
       IN  /\ found_urls' = IF fresh THEN found_urls \cup {ld.url} ELSE found_urls
           /\ lastFetch' = IF fresh /\ ~skip
                          THEN Fetched("detail", ci, page - 1, TRUE, <<>>)
                          ELSE [lastFetch EXCEPT !.delayed = @ \/ Tail(pending) = <<>>]
           /\ IF fresh /\ ~skip
              THEN /\ commission_results' =
                        Append(commission_results,
                               NewRecord(ld, pd, commission_approaches[ci], page))
                   /\ nDetail' = nDetail + 1
                   /\ nAppended' = nAppended + 1
                   /\ failed' = (failed \/ ~detail_ok)
              ELSE /\ detail_ok
                   /\ UNCHANGED <<commission_results, nDetail, nAppended, failed>>
    /\ pending' = Tail(pending)
    /\ IF Tail(pending) = <<>>
       THEN pc' = "list" /\ page' = page + 1
       ELSE pc' = "items" /\ page' = page
    /\ UNCHANGED <<runs, force, max_pages, current_year, current_year_id, disk, remote, ci,
                   results, mi, ret, summary, diskAtStart, nListing, wrote, prev, pureVars>>

\* after the step of ministry mi: the next ministry, or the end of the crawl
NextMinistry ==
    IF mi < NumMinistries THEN mi' = mi + 1 /\ pc' = "ministry"
    ELSE mi' = mi /\ pc' = "finish"

\* the listing fetch of ministry mi fails: the except clause continues with the next
MinistryFetchFails ==
    /\ pc = "ministry"
    /\ lastFetch' = Fetched("ministry", mi, 0, FALSE, <<>>)
    /\ faults < MaxFaults
    /\ faults' = faults + 1
    /\ nListing' = nListing + 1
    /\ failed' = TRUE
    /\ NextMinistry
    /\ UNCHANGED <<runs, force, max_pages, current_year, current_year_id, disk, remote, ci, page,
                   pending, found_urls, commission_results, results, ret, summary,
                   diskAtStart, nDetail, nAppended, wrote, prev, pureVars>>

\* the step of ministry mi with the page m its filter serves
MinistryStep(m) ==
    /\ pc = "ministry"
    /\ lastFetch' = Fetched("ministry", mi, 0, ~m.marker, m.hrefs)
    /\ nListing' = nListing + 1
    /\ results' = IF m.marker THEN results
                  ELSE ApplyMinistry(results, m.hrefs, ministry_approaches[mi])
    /\ NextMinistry
    /\ UNCHANGED <<runs, force, max_pages, current_year, current_year_id, disk, remote, ci, page,
                   pending, found_urls, commission_results, ret, summary,
                   diskAtStart, nDetail, nAppended, failed, wrote, prev, faults, pureVars>>

\* scrape_current_year_legislation ends with  return True  on every path
scraping_result == TRUE

\* how the write of save_results can end: completely, with open() raising, or with
\* json.dump raising after open(filename, 'w') has truncated the file
WriteOutcomes == {"written", "open_raises", "dump_raises"}

\* a plausible slip: an empty result list is saved and reported like any other
Finish_saving_empty(io) ==
    /\ pc = "finish"
    /\ lastFetch' = lastFetch
    /\ pc' = "done"
    /\ io # "written" => faults < MaxFaults
    /\ faults' = IF io = "written" THEN faults ELSE faults + 1
    /\ disk' = CASE io = "written" -> Snapshot(results)
                 [] io = "open_raises" -> disk
                 [] io = "dump_raises" -> Unreadable
    /\ wrote' = IF io = "written" THEN "complete" ELSE "failed"
    /\ summary' = (io = "written")
    /\ ret' = IF io = "written" THEN "True" ELSE "raised"
    /\ UNCHANGED results
    /\ UNCHANGED <<runs, force, max_pages, current_year, current_year_id, remote, ci, page,
                   pending, found_urls, commission_results, mi,
                   diskAtStart, nListing, nDetail, nAppended, failed, prev, pureVars>>

\* the end of run() after the crawl: the branches on scraping_result and self.results,
\* with save_results and print_summary
Finish(io) ==
    /\ pc = "finish"
    /\ lastFetch' = lastFetch
    /\ pc' = "done"
    /\ io # "written" => faults < MaxFaults
    /\ faults' = IF io = "written" THEN faults ELSE faults + 1
    /\ IF ~scraping_result
       THEN /\ io = "written"
            /\ IF disk.kind = "snapshot"
               THEN results' = disk.data /\ summary' = (disk.data # <<>>) /\ ret' = "True"
               ELSE results' = results /\ summary' = summary /\ ret' = "False"
            /\ UNCHANGED <<disk, wrote>>
       ELSE IF results # <<>>
       THEN /\ disk' = CASE io = "written" -> Snapshot(results)
                         [] io = "open_raises" -> disk
                         [] io = "dump_raises" -> Unreadable
            /\ wrote' = IF io = "written" THEN "complete" ELSE "failed"
            /\ summary' = (io = "written")
            /\ ret' = IF io = "written" THEN "True" ELSE "raised"
            /\ UNCHANGED results
       ELSE /\ io = "written"
            /\ ret' = "False"
            /\ UNCHANGED <<disk, wrote, summary, results>>
    /\ UNCHANGED <<runs, force, max_pages, current_year, current_year_id, remote, ci, page,
                   pending, found_urls, commission_results, mi,
                   diskAtStart, nListing, nDetail, nAppended, failed, prev, pureVars>>

Next ==
    \/ \E f \in BOOLEAN, mp \in MaxPagesArgs : StartRun(f, mp)
    \/ \E yp \in YearPages : ResolveYear(yp)
    \/ FetchListingFails
    \/ \E c \in ListingPages : FetchListing(c)
    \/ \E d \in BOOLEAN : ProcessItem(d)
    \/ MinistryFetchFails
    \/ \E m \in MinistryPages : MinistryStep(m)
    \/ \E io \in WriteOutcomes : Finish(io)

Spec == Init /\ [][Next]_vars

----------------------------------------------------------------------------
(* Inputs of extract_law_number: texts made of at most MaxPieces pieces *)

MaxPieces == 4

Pieces ==
    { <<"N", "°">>, <<" ">>, <<"x">>, <<"5">>, <<".">>, <<"/">>,
      <<"1", ".", "2">>, <<"3", "/", "4">> }

\* the example of the specification: both "N°03.25" and a bare "12/34", in either order
ExampleTexts ==
    { <<"N", "°", "0", "3", ".", "2", "5", " ", "1", "2", "/", "3", "4">>,
      <<"1", "2", "/", "3", "4", " ", "N", "°", "0", "3", ".", "2", "5">> }

LawTexts ==
    { Flatten(ps) : ps \in UNION { [1..n -> Pieces] : n \in 0..MaxPieces } } \cup ExampleTexts

InitLaw ==
    /\ CrawlIdle /\ ChkIdle /\ DetIdle /\ RapIdle /\ ReqIdle /\ YrIdle
    /\ lawText \in LawTexts
    /\ lawCalled = FALSE
    /\ lawOut = <<>>

\* the call extract_law_number(lawText)
CallExtractLawNumber ==
    /\ ~lawCalled
    /\ lawCalled' = TRUE
    /\ lawOut' = extract_law_number(lawText)
    /\ UNCHANGED <<lawText, crawlVars, histVars, yrVars, chkVars, detVars, rapVars, reqVars>>

NextLaw == CallExtractLawNumber

SpecLaw == InitLaw /\ [][NextLaw]_vars

----------------------------------------------------------------------------
(* check_existing_data on its own: the flag, the file and the law number are inputs *)

AnchorB ==
    [href |-> RelHref("/fr/legislation/projet-de-loi-b"),
     text |-> <<"1", "2", "/", "3", "4", " ">> \o Lecture1]

\* the record a pass of the first commission filter appends for an anchor
RecordOf(anchor) ==
    LET ld == extract_legislation_data(anchor)
    IN  NewRecord(ld, extract_legislation_page_details(TRUE, ld.title),
                  commission_approaches[1], 1)

\* the longest data list of the files check_existing_data is called on
MaxStored == 2

StoredRecords == { RecordOf(a) : a \in {AnchorA, AnchorB, AnchorC} }

\* the files: none, an unreadable one, and the snapshots of up to MaxStored records
ExistsFiles ==
    {NoFile, Unreadable} \cup
    { Snapshot(recs) : recs \in UNION { [1..n -> StoredRecords] : n \in 0..MaxStored } }

\* the law numbers asked for: the empty string, two that records carry, one that none does
AskedNumbers ==
    { <<>>, RecordOf(AnchorA).law_number, RecordOf(AnchorB).law_number,
      <<"9", "9", ".", "9", "9">> }

InitExists ==
    /\ CrawlIdle /\ LawIdle /\ DetIdle /\ RapIdle /\ ReqIdle /\ YrIdle
    /\ chkForce \in BOOLEAN
    /\ chkFile \in ExistsFiles
    /\ chkN \in AskedNumbers
    /\ chkCalled = FALSE
    /\ chkOut = FALSE

\* the call check_existing_data(chkN)
CallCheckExistingData ==
    /\ ~chkCalled
    /\ chkCalled' = TRUE
    /\ chkOut' = check_existing_data(chkForce, chkFile, chkN)
    /\ UNCHANGED <<chkForce, chkFile, chkN, crawlVars, histVars, yrVars, lawVars, detVars, rapVars,
                   reqVars>>

NextExists == CallCheckExistingData

SpecExists == InitExists /\ [][NextExists]_vars

----------------------------------------------------------------------------
(* extract_legislation_page_details for one listing item: the label is the input *)

\* the labels are made of at most MaxLabelPieces pieces
MaxLabelPieces == 3

LabelPieces ==
    { Lecture1, Lecture2, <<"L", "e", "c", "t", "u", "r", "e">>, <<" ">>, <<"1">>,
      <<"2">>, <<"N", "°", "0", "3", ".", "2", "5">> }

Labels == { Flatten(ps) : ps \in UNION { [1..n -> LabelPieces] : n \in 0..MaxLabelPieces } }

InitDetail ==
    /\ CrawlIdle /\ LawIdle /\ ChkIdle /\ RapIdle /\ ReqIdle /\ YrIdle
    /\ detLabel \in Labels
    /\ detPage = EmptyPage
    /\ detCalled = FALSE
    /\ detOut = NoDetails
    /\ detStages = NoStages

\* the crawl's handling of an item whose anchor text is detLabel, up to the return of
\* extract_legislation_page_details(item_url, legislation_data.get('title', ''))
CallExtractDetails(fetch_ok) ==
    /\ ~detCalled
    /\ LET ld == extract_legislation_data([href |-> AnchorA.href, text |-> detLabel])
       IN  /\ ld.ok
           /\ detOut' = extract_legislation_page_details(fetch_ok, ld.title)
           /\ detStages' = lecture_stages(fetch_ok, ld.title, detPage)
    /\ detCalled' = TRUE
    /\ UNCHANGED <<detLabel, detPage, crawlVars, histVars, yrVars, lawVars, chkVars, rapVars,
                   reqVars>>

NextDetail == \E fetch_ok \in BOOLEAN : CallExtractDetails(fetch_ok)

SpecDetail == InitDetail /\ [][NextDetail]_vars

\* the stage the label stands for
StageOfLabel(label) ==
    IF Contains(label, Lecture2) THEN "Lecture 2"
    ELSE IF Contains(label, Lecture1) THEN "Lecture 1"
    ELSE "Unknown"

\* C9: for every listing label, the record produced by detail parsing has a stage field,
\* whose value is "Lecture 2" if the label contains "Lecture 2", otherwise "Lecture 1" if
\* it contains "Lecture 1", otherwise "Unknown".
C9_StageFromLabel ==
    (detCalled /\ detOut.ok) =>
        (detOut.has_stage /\ detOut.stage = StageOfLabel(detLabel))

----------------------------------------------------------------------------
(* extract_legislation_page_details on a detail page: the label and the page are the
   inputs *)

\* the pages have at most MaxBlocks dp-blocks
MaxBlocks == 3

\* the labels: a first-reading one, a second-reading one, one without lecture marker
StageLabels == { AnchorA.text, AnchorC.text, <<"N", "°", "0", "3", ".", "2", "5">> }

\* the headings of the pages: none, a rapport heading over the container of two links
\* to the same PDF, a rapport heading over the container without link
StageHeadings ==
    { <<>>, <<Heading("h3.section-title", TRUE, 1)>>, <<Heading("h3.section-title", TRUE, 3)>> }

DetailPages ==
    { DetailPage(bs, hs) :
        bs \in UNION { [1..n -> DpBlocks] : n \in 0..MaxBlocks }, hs \in StageHeadings }

InitStages ==
    /\ CrawlIdle /\ LawIdle /\ ChkIdle /\ RapIdle /\ ReqIdle /\ YrIdle
    /\ detLabel \in StageLabels
    /\ detPage \in DetailPages
    /\ detCalled = FALSE
    /\ detOut = NoDetails
    /\ detStages = NoStages

NextStages == \E fetch_ok \in BOOLEAN : CallExtractDetails(fetch_ok)

SpecStages == InitStages /\ [][NextStages]_vars

\* the call returned the details of a record of the given stage
ReturnedStage(stage) ==
    detCalled /\ detOut.ok /\ detOut.has_stage /\ detOut.stage = stage

\* C11: a record whose stage is "Lecture 1" has no deuxieme_lecture key, whatever blocks
\* its detail page contains (a Bureau block with the transfer marker, a "Rapport de"
\* heading), and its premiere_lecture holds at most one commission-submission tuple,
\* which is none of the second or later ones of the page.
C11_Lecture1NoSecondReading ==
    ReturnedStage("Lecture 1") =>
        /\ ~detStages.deuxieme_lecture
        /\ ~detStages.commission2_key
        /\ detStages.commission \in
              {NoSubmission} \cup
              { commission_submissions(detPage.blocks)[i] :
                    i \in 1..(IF commission_submissions(detPage.blocks) = <<>> THEN 0 ELSE 1) }

\* C12: for a record whose stage is "Lecture 2" and whose detail page yields n >= 1
\* commission-submission tuples, premiere_lecture.commission is the first tuple and,
\* when n >= 2, deuxieme_lecture.commission is the second, whichever other blocks the
\* page contains.
C12_Lecture2CommissionPlacement ==
    LET tuples == commission_submissions(detPage.blocks)
    IN  (ReturnedStage("Lecture 2") /\ Len(tuples) >= 1) =>
            /\ detStages.premiere_lecture
            /\ detStages.commission_key
            /\ detStages.commission = tuples[1]
            /\ Len(tuples) >= 2 =>
                  /\ detStages.deuxieme_lecture
                  /\ detStages.commission2_key
                  /\ detStages.commission2 = tuples[2]

----------------------------------------------------------------------------
(* extract_rapport_section on its own: the headings of the page are the input *)

\* the pages have at most MaxHeadings headings
MaxHeadings == 2

HeadingTags == {"h3.section-title", "h4", "h2"}

Headings ==
    { Heading(tag, r, k) : tag \in HeadingTags, r \in BOOLEAN, k \in 0..Len(Containers) }

RapportPages ==
    { DetailPage(<<>>, hs) : hs \in UNION { [1..n -> Headings] : n \in 0..MaxHeadings } }

InitRapport ==
    /\ CrawlIdle /\ LawIdle /\ ChkIdle /\ DetIdle /\ ReqIdle /\ YrIdle
    /\ rapPage \in RapportPages
    /\ rapCalled = FALSE
    /\ rapOut = NoRapport

\* the call extract_rapport_section(soup, url) on the page rapPage
CallExtractRapportSection ==
    /\ ~rapCalled
    /\ rapCalled' = TRUE
    /\ rapOut' = extract_rapport_section(rapPage)
    /\ UNCHANGED <<rapPage, crawlVars, histVars, yrVars, lawVars, chkVars, detVars, reqVars>>

NextRapport == CallExtractRapportSection

SpecRapport == InitRapport /\ [][NextRapport]_vars

\* C13: no two entries of the files of a returned rapport_section have the same resolved
\* url, also when several headings that match lead to the same container, and a
\* rapport_section is returned only with at least one file.
C13_RapportFilesUnique ==
    (rapCalled /\ rapOut.ok) =>
        /\ rapOut.files # <<>>
        /\ \A i, j \in 1..Len(rapOut.files) :
              i # j => rapOut.files[i].url # rapOut.files[j].url

----------------------------------------------------------------------------
(* _make_request: one fetch, the configuration being the input *)

\* the configurations have retry_attempts up to MaxRetryAttempts and up to MaxProxies
\* proxies
MaxRetryAttempts == 3

MaxProxies == 2

\* the seconds of  time.sleep(2)  before a retry
RetryWait == 2

\* session.proxies holds no proxy
NoProxy == -1

InitFetch ==
    /\ CrawlIdle /\ LawIdle /\ ChkIdle /\ DetIdle /\ RapIdle /\ YrIdle
    /\ retry_attempts \in 0..MaxRetryAttempts
    /\ enable_proxies \in BOOLEAN
    /\ proxy_rotation \in BOOLEAN
    /\ proxies \in 0..MaxProxies
    /\ current_proxy_index = 0
    /\ reqPc = "get"
    /\ retry_count = 0
    /\ gets = 0 /\ rotations = 0 /\ slept = 0 /\ reported = 0
    /\ session_proxy = NoProxy
    /\ fetches = 1

\* _rotate_proxy: the index moves on when proxies are enabled, rotated and configured
rotate_proxy(index) ==
    IF enable_proxies /\ proxy_rotation /\ proxies > 0 THEN index + 1 ELSE index

\* _rotate_proxy: session.proxies is updated with proxies[index % len(proxies)] of the
\* new index
rotate_session(index, proxy) ==
    IF enable_proxies /\ proxy_rotation /\ proxies > 0 THEN (index + 1) % proxies
    ELSE proxy

\* session.get succeeds and raise_for_status passes: the response is returned
GetSucceeds ==
    /\ reqPc = "get"
    /\ gets' = gets + 1
    /\ reqPc' = "returned"
    /\ UNCHANGED <<retry_attempts, enable_proxies, proxy_rotation, proxies,
                   current_proxy_index, retry_count, rotations, slept, reported,
                   session_proxy, fetches, crawlVars, histVars, yrVars, lawVars, chkVars, detVars, rapVars>>

\* session.get or raise_for_status raises a RequestException: while
\* retry_count < max_retries the proxy is rotated, two seconds are slept and
\* _make_request calls itself with retry_count + 1; else the failure is logged with
\* max_retries as the number of attempts and the exception is raised again
GetFails ==
    /\ reqPc = "get"
    /\ gets' = gets + 1
    /\ IF retry_count < retry_attempts
       THEN /\ rotations' = rotations + 1
            /\ current_proxy_index' = rotate_proxy(current_proxy_index)
            /\ session_proxy' = rotate_session(current_proxy_index, session_proxy)
            /\ slept' = slept + RetryWait
            /\ retry_count' = retry_count + 1
            /\ UNCHANGED <<reqPc, reported>>
       ELSE /\ reqPc' = "raised"
            /\ reported' = retry_attempts
            /\ UNCHANGED <<rotations, current_proxy_index, session_proxy, slept,
                           retry_count>>
    /\ UNCHANGED <<retry_attempts, enable_proxies, proxy_rotation, proxies, fetches,
                   crawlVars, histVars, yrVars, lawVars, chkVars, detVars, rapVars>>

NextFetch == GetSucceeds \/ GetFails

SpecFetch == InitFetch /\ [][NextFetch]_vars

\* C18: a fetch issues a bounded number of GET attempts; it returns on the first
\* successful one, and when every attempt fails it raises after exactly retry_attempts
\* GET attempts, the number its failure message reports, with one proxy rotation and one
\* wait of two seconds between consecutive attempts.
C18_BoundedRetry ==
    /\ gets <= retry_attempts + 1
    /\ reqPc \in {"returned", "raised"} =>
          /\ gets >= 1
          /\ rotations = gets - 1
          /\ slept = 2 * (gets - 1)
    /\ reqPc = "raised" => (gets = retry_attempts /\ reported = gets)

----------------------------------------------------------------------------
(* get_current_legislative_year on its own: the listing page is the input *)

\* the year selectors have at most MaxOptions options
MaxOptions == 3

\* the options: the sentinel, an option with the value of the sentinel only, an option
\* with the text of the sentinel only, and two legislative years
YearOptions ==
    { Sentinel,
      [value |-> "All", text |-> "2027-2028"],
      [value |-> "56", text |-> "- Tout -"],
      [value |-> "55", text |-> "2026-2027"],
      [value |-> "54", text |-> "2025-2026"] }

YearInputs ==
    { [fetch_ok |-> FALSE, has_select |-> FALSE, options |-> <<>>],
      [fetch_ok |-> TRUE, has_select |-> FALSE, options |-> <<>>] } \cup
    { [fetch_ok |-> TRUE, has_select |-> TRUE, options |-> os] :
        os \in UNION { [1..n -> YearOptions] : n \in 0..MaxOptions } }

InitYear ==
    /\ CrawlIdle /\ LawIdle /\ ChkIdle /\ DetIdle /\ RapIdle /\ ReqIdle
    /\ yrPage \in YearInputs
    /\ yrCalled = FALSE
    /\ yrOut = Unresolved

\* the call get_current_legislative_year() on the page yrPage
CallGetCurrentLegislativeYear ==
    /\ ~yrCalled
    /\ yrCalled' = TRUE
    /\ yrOut' = get_current_legislative_year(yrPage)
    /\ UNCHANGED <<yrPage, crawlVars, histVars, lawVars, chkVars, detVars, rapVars, reqVars>>

NextYear == CallGetCurrentLegislativeYear

SpecYear == InitYear /\ [][NextYear]_vars

\* option o is an "all years" sentinel
IsSentinel(o) == o.value = "All" \/ o.text = "- Tout -"

\* C22: when the listing page is fetched and its year selector has options, the resolved
\* year and year id are the text and value of the first option in document order that is
\* not a sentinel (value 'All' or text '- Tout -'); when every option is a sentinel, the
\* resolution succeeds with the year string and id computed from the system date.
C22_YearSelection ==
    (yrCalled /\ yrPage.fetch_ok /\ yrPage.has_select /\ yrPage.options # <<>>) =>
        LET os == yrPage.options
            real == { i \in 1..Len(os) : ~IsSentinel(os[i]) }
        IN  /\ yrOut.ok
            /\ \A i \in real :
                  (\A j \in real : i <= j) =>
                      /\ yrOut.current_year = os[i].text
                      /\ yrOut.current_year_id = os[i].value
            /\ real = {} =>
                  /\ yrOut.current_year = "2026-2027"
                  /\ yrOut.current_year_id = "2026"

\* the selector lists the sentinel, an option with the sentinel's value, then two years,
\* and the first of the two years is resolved
C22_Witness ==
    /\ yrCalled
    /\ yrPage.options = <<Sentinel, [value |-> "56", text |-> "- Tout -"],
                          [value |-> "54", text |-> "2025-2026"]>>
    /\ yrOut.ok
    /\ yrOut.current_year = "2025-2026"
    /\ yrOut.current_year_id = "54"

----------------------------------------------------------------------------
(* The scraper object: construction, changes of its configuration, and its fetches *)

\* a scraper makes at most MaxFetches fetches
MaxFetches == 2

\* the scraper is not yet constructed: reqPc = "new", and current_proxy_index is not yet
\* an attribute of the object (its value here is not read by _create_session below)
InitSession ==
    /\ CrawlIdle /\ LawIdle /\ ChkIdle /\ DetIdle /\ RapIdle /\ YrIdle
    /\ retry_attempts \in 0..MaxRetryAttempts
    /\ enable_proxies \in BOOLEAN
    /\ proxy_rotation \in BOOLEAN
    /\ proxies \in 0..MaxProxies
    /\ current_proxy_index = 0
    /\ reqPc = "new"
    /\ retry_count = 0
    /\ gets = 0 /\ rotations = 0 /\ slept = 0 /\ reported = 0
    /\ session_proxy = NoProxy
    /\ fetches = 0

\* __init__: _create_session() is called before self.current_proxy_index is assigned;
\* with proxies enabled and configured it reads the attribute, which raises
\* AttributeError; else the session has no proxy and the index is set to 0
Construct ==
    /\ reqPc = "new"
    /\ IF enable_proxies /\ proxies > 0
       THEN reqPc' = "init_raised" /\ UNCHANGED <<current_proxy_index, session_proxy>>
       ELSE reqPc' = "idle" /\ current_proxy_index' = 0 /\ session_proxy' = NoProxy
    /\ UNCHANGED <<retry_attempts, enable_proxies, proxy_rotation, proxies, retry_count,
                   gets, rotations, slept, reported, fetches,
                   crawlVars, histVars, yrVars, lawVars, chkVars, detVars, rapVars>>

\* ConfigManager.enable_proxies(b) on the configuration of the constructed scraper,
\* between two fetches: only the configuration changes
SetEnableProxies(b) ==
    /\ reqPc \in {"idle", "returned", "raised"}
    /\ enable_proxies # b
    /\ enable_proxies' = b
    /\ UNCHANGED <<retry_attempts, proxy_rotation, proxies, current_proxy_index, reqPc,
                   retry_count, gets, rotations, slept, reported, session_proxy, fetches,
                   crawlVars, histVars, yrVars, lawVars, chkVars, detVars, rapVars>>

\* _make_request(url) is called with retry_count = 0
StartFetch ==
    /\ reqPc \in {"idle", "returned", "raised"}
    /\ fetches < MaxFetches
    /\ fetches' = fetches + 1
    /\ reqPc' = "get"
    /\ retry_count' = 0
    /\ gets' = 0 /\ rotations' = 0 /\ slept' = 0 /\ reported' = 0
    /\ UNCHANGED <<retry_attempts, enable_proxies, proxy_rotation, proxies,
                   current_proxy_index, session_proxy,
                   crawlVars, histVars, yrVars, lawVars, chkVars, detVars, rapVars>>

NextSession ==
    \/ Construct
    \/ \E b \in BOOLEAN : SetEnableProxies(b)
    \/ StartFetch
    \/ GetSucceeds
    \/ GetFails

SpecSession == InitSession /\ [][NextSession]_vars

\* proxy use and rotation are enabled and there is a proxy
Rotating == enable_proxies /\ proxy_rotation /\ proxies >= 1

\* C25: with proxy use and rotation enabled and k >= 1 proxies, the active proxy of the
\* session is always proxies[cursor mod k]; a failed attempt that is followed by a retry
\* advances the cursor by one; a successful attempt, the last failed attempt of a fetch
\* and an attempt made with proxy use or rotation disabled leave the cursor and the
\* active proxy unchanged; the cursor is carried over from one fetch to the next.
C25_ProxyCursor ==
    /\ []((reqPc \in {"idle", "get", "returned", "raised"} /\ Rotating)
             => session_proxy = current_proxy_index % proxies)
    /\ [][/\ (reqPc = "get" /\ reqPc' = "get" /\ Rotating)
                => current_proxy_index' = current_proxy_index + 1
          /\ (reqPc = "get" /\ (reqPc' \in {"returned", "raised"} \/ ~Rotating))
                => (current_proxy_index' = current_proxy_index
                    /\ session_proxy' = session_proxy)
          /\ (reqPc \in {"returned", "raised"} /\ reqPc' = "get")
                => current_proxy_index' = current_proxy_index]_vars

\* C30: constructing the scraper with proxy use enabled and a non-empty proxy list
\* completes, with the cursor at 0 and the session using the first proxy.
C30_InitWithProxies ==
    [][(reqPc = "new" /\ enable_proxies /\ proxies >= 1)
          => (reqPc' = "idle" /\ current_proxy_index' = 0 /\ session_proxy' = 0)]_vars

----------------------------------------------------------------------------
(* Claims on the run *)

\* the run has ended after its crawl (the year was resolved)
CrawlOver == pc = "done" /\ current_year # "None"

\* C1: when the year is resolved, the crawl has collected no new record and the snapshot
\* file of the year exists, run() loads the data of the snapshot into its results, emits
\* the summary and returns True.
C1_NoNewDataSucceeds ==
    (CrawlOver /\ nAppended = 0 /\ disk.kind = "snapshot")
        => (ret = "True" /\ summary /\ results = disk.data)

\* C2: a run without force_rescrape that follows a run without force_rescrape which
\* wrote the snapshot, no fetch failing in either, fetches no detail page and appends no
\* record.
C2_SecondRunCollectsNothing ==
    (CrawlOver /\ ~force /\ ~failed
        /\ prev.ran /\ ~prev.force /\ prev.wrote = "complete" /\ ~prev.failed)
        => (nDetail = 0 /\ nAppended = 0)

\* C3: after a run without force_rescrape that wrote the snapshot, every law number of
\* the snapshot the run started with is still in the snapshot.
C3_MergeOnPersist ==
    (pc = "done" /\ wrote = "complete" /\ ~force /\ diskAtStart.kind = "snapshot")
        => LawNumbersOf(diskAtStart.data) \subseteq LawNumbersOf(disk.data)

\* C4: when the write of the snapshot fails, run() returns False and the snapshot file is
\* what it was before the run.
C4_WriteFailureReported ==
    (pc = "done" /\ wrote = "failed") => (ret = "False" /\ disk = diskAtStart)

\* C5: in every state of a run before the persist step (year resolution, the commission
\* passes with their detail fetches, the ministry sweep) the snapshot file is what it was
\* at the start of the run.
C5_NoWriteBeforePersist ==
    pc \in {"resolve", "list", "items", "ministry", "finish"} => disk = diskAtStart

\* a run that started with a snapshot on disk has collected records and is in its
\* ministry sweep
C5_Witness ==
    /\ pc = "ministry"
    /\ diskAtStart.kind = "snapshot"
    /\ nDetail >= 1
    /\ results # <<>>

\* C6: when the legislative year is not resolved, run() returns False, having issued no
\* commission or ministry listing fetch and no detail fetch, and the snapshot file is
\* what it was.
C6_YearFailureIsFatal ==
    (pc \notin {"idle", "resolve"} /\ current_year = "None")
        => (pc = "done" /\ ret = "False" /\ nListing = 0 /\ nDetail = 0
            /\ disk = diskAtStart)

\* a run ended on a failed year resolution while a snapshot of an earlier run is on disk
C6_Witness ==
    /\ pc = "done"
    /\ current_year = "None"
    /\ ret = "False"
    /\ disk.kind = "snapshot"

\* the absolute url of the item the loop is at
ItemUrl == urljoin(base_url, Head(pending).href)

\* the iteration fetches the detail page of the item and appends a record for it
ItemIsFetchedAndAppended ==
    /\ nDetail' = nDetail + 1
    /\ Len(commission_results') = Len(commission_results) + 1
    /\ commission_results'[Len(commission_results')].url = ItemUrl
    /\ found_urls' = found_urls \cup {ItemUrl}

\* C8 as stated: with force_rescrape, every item of a listing page whose url was not yet
\* seen in the pass gets its detail page fetched and a record appended.
C8_ForceRescrapesEveryItem ==
    [][(pc = "items" /\ force /\ ItemUrl \notin found_urls)
          => ItemIsFetchedAndAppended]_vars

\* C8 amended: with force_rescrape, every item of a listing page that has a non-empty
\* label text and whose url was not yet seen in the pass gets its detail page fetched and
\* a record appended, also when its law number is in the snapshot on disk.
C8_ForceRescrapesEveryTitledItem ==
    [][(pc = "items" /\ force /\ ItemUrl \notin found_urls
            /\ Strip(Head(pending).text) # <<>>)
          => ItemIsFetchedAndAppended]_vars

\* with force_rescrape, a record was appended whose law number is in the snapshot on disk
C8_Witness ==
    /\ force
    /\ disk.kind = "snapshot"
    /\ \E i \in 1..Len(commission_results) :
          /\ commission_results[i].law_number # <<>>
          /\ commission_results[i].law_number \in LawNumbersOf(disk.data)

\* a listing page of the pass of commission ci is requested in this step
ListingRequested == pc = "list" /\ nListing' = nListing + 1

\* the listing page requested in this step is served (the fetch does not fail)
ListingServed == ListingRequested /\ faults' = faults

\* the pass of commission ci ends in this step without raising: its records join the
\* results and the next commission filter is up, or the crawl goes on after the last one
PassEnds ==
    /\ results' = results \o commission_results
    /\ ret' = ret
    /\ IF ci < NumCommissions
       THEN ci' = ci + 1 /\ page' = 1 /\ pc' = "list"
       ELSE pc' \in {"ministry", "finish"}

\* C14: once a ministry filter of the sweep has assigned the ministry and ministry_id of
\* a record, no later filter of the sweep changes them.
C14_MinistryFirstMatchWins ==
    [][pc = "ministry" =>
          \A i \in 1..Len(results) :
              results[i].ministry_id # "To be identified" =>
                  /\ results'[i].ministry_id = results[i].ministry_id
                  /\ results'[i].ministry = results[i].ministry]_vars

\* C15: when a listing page of a commission pass has the "no content" marker, no item of
\* the page is processed, no further page of the commission is requested, the pass ends
\* without raising and the crawl goes on with the next commission filter; with the marker
\* on the first page the commission contributes no record.
C15_NoContentStops ==
    [][(ListingServed /\ remote'[ci, page].marker) =>
          /\ PassEnds
          /\ pending' = <<>>
          /\ nDetail' = nDetail /\ nAppended' = nAppended
          /\ page = 1 => results' = results]_vars

\* the pass of the first commission collected a record and ended on the marker of its
\* second page
C15_Witness ==
    /\ runs = 1 /\ faults = 0
    /\ pc = "list" /\ ci = 2 /\ page = 1
    /\ remote[1, 2].served /\ remote[1, 2].marker
    /\ results # <<>>

\* C16: after a listing page of a commission pass that has no marker and no candidate
\* item, no page with a higher index is requested for that commission.
C16_EmptyListingStops ==
    [][ListingRequested =>
          \A q \in 1..(page - 1) :
              ~(~remote[ci, q].marker /\ remote[ci, q].anchors = <<>>)]_vars

\* C17: a run started with max_pages = N requests at most N listing pages for each
\* commission filter.
C17_MaxPagesBound ==
    [][ListingRequested => page <= max_pages]_vars

\* C19: when the listing fetch of a page of a commission pass fails, the crawl does not
\* raise, the records of the earlier pages of the pass join the results, no further page
\* of the commission is requested and the next commission filter is up; a failed fetch of
\* a ministry filter leaves the results as they are and the sweep goes on with the next
\* ministry.
C19_FetchFailureIsLocal ==
    [][/\ (pc = "list" /\ faults' = faults + 1) => PassEnds
       /\ (pc = "ministry" /\ faults' = faults + 1) =>
             /\ results' = results
             /\ ret' = ret
             /\ IF mi < NumMinistries THEN mi' = mi + 1 /\ pc' = "ministry"
                ELSE pc' = "finish"]_vars

\* the pass of the first commission collected a record on its first page, the fetch of
\* its second page failed, and the pass of the second commission is up with the record
\* in the results
C19_Witness ==
    /\ runs = 1 /\ faults = 1 /\ failed
    /\ pc = "list" /\ ci = 2 /\ page = 1
    /\ remote[1, 1].served /\ ~remote[1, 2].served
    /\ nListing = 2 /\ nDetail = 1
    /\ Len(results) = 1 /\ results[1].detailed

\* C20: within one commission pass no absolute url is detail-fetched or appended more
\* than once: the records of the pass have distinct urls, all of them in found_urls, and
\* a detail page is fetched only for a url that was not in found_urls and is from then on.
C20_NoUrlTwiceInPass ==
    /\ [](\A i, j \in 1..Len(commission_results) :
             /\ commission_results[i].url \in found_urls
             /\ i # j => commission_results[i].url # commission_results[j].url)
    /\ [][(pc = "items" /\ (nDetail' = nDetail + 1
                            \/ Len(commission_results') = Len(commission_results) + 1))
            => (ItemUrl \notin found_urls /\ ItemUrl \in found_urls')]_vars

\* the first page of a pass linked the same bill twice and the pass holds one record
C20_Witness ==
    /\ pc = "list" /\ page = 2
    /\ remote[ci, 1].served
    /\ remote[ci, 1].anchors = <<AnchorA, AnchorA>>
    /\ Len(commission_results) = 1
    /\ nDetail = 1

\* C26: when the year is resolved, the crawl has collected no record and no snapshot file
\* of the year exists, run() ends returning False, writes no snapshot file and emits no
\* summary.
C26_NothingCollectedFails ==
    (CrawlOver /\ nAppended = 0 /\ diskAtStart.kind = "absent")
        => (ret = "False" /\ disk = NoFile /\ wrote = "none" /\ ~summary)

\* both commission passes and the end of run() took place without any record collected
C26_Witness ==
    /\ CrawlOver /\ nAppended = 0 /\ diskAtStart.kind = "absent"
    /\ ci = NumCommissions /\ nListing >= NumCommissions
    /\ ret = "False"

\* C29: at the end of the crawl no two records of the result list have the same url: an
\* item listed under the "All commissions" filter and under a specific commission filter
\* appears once.
C29_RunWideUniqueUrls ==
    CrawlOver => \A i, j \in 1..Len(results) : i # j => results[i].url # results[j].url

\* C21: every record the crawl collects carries, from its append on, the description and
\* the id of the commission filter of the pass that appended it, and its ministry and
\* ministry_id are either both "To be identified" or the description and the id of one
\* entry of the ministry list.
C21_IdentityFields ==
    /\ [](\A i \in 1..Len(results \o commission_results) :
             LET r == (results \o commission_results)[i]
             IN  \/ r.ministry = "To be identified" /\ r.ministry_id = "To be identified"
                 \/ \E m \in 1..Len(ministry_approaches) :
                       /\ r.ministry = ministry_approaches[m].description
                       /\ r.ministry_id = ministry_approaches[m].ministry_id)
    /\ [][runs' = runs =>
            LET old == results \o commission_results
                new == results' \o commission_results'
            IN  /\ Len(new) >= Len(old)
                /\ \A i \in 1..Len(old) :
                      /\ new[i].commission = old[i].commission
                      /\ new[i].commission_id = old[i].commission_id
                /\ \A i \in (Len(old) + 1)..Len(new) :
                      /\ new[i].commission = commission_approaches[ci].description
                      /\ new[i].commission_id = commission_approaches[ci].commissions_id]_vars

\* the crawl is over with a record of the second commission filter, built with its
\* detail page, that a ministry filter page has linked
C21_Witness ==
    /\ CrawlOver
    /\ \E i \in 1..Len(results) :
          /\ results[i].detailed
          /\ results[i].commission_id = commission_approaches[2].commissions_id
          /\ results[i].commission = commission_approaches[2].description
          /\ results[i].ministry_id = ministry_approaches[2].ministry_id
          /\ results[i].ministry = ministry_approaches[2].description

\* C28: when the detail page of an item cannot be had (its fetch fails after the retries
\* or its parsing raises), the enumerator still appends one record for the item, built
\* from the listing data (url, title, law_number, full_title), the identity of the
\* commission, the default ministry and the timestamp, and goes on with the next item.
C28_DetailFailureDegrades ==
    [][(pc = "items" /\ faults' = faults + 1) =>
          LET ld == extract_legislation_data(Head(pending))
              n == Len(commission_results')
              r == commission_results'[n]
          IN  /\ n = Len(commission_results) + 1
              /\ SubSeq(commission_results', 1, n - 1) = commission_results
              /\ ~r.detailed
              /\ r.url = ld.url /\ r.title = ld.title
              /\ r.law_number = ld.law_number /\ r.full_title = ld.full_title
              /\ r.stage = "(absent)"
              /\ r.commission = commission_approaches[ci].description
              /\ r.commission_id = commission_approaches[ci].commissions_id
              /\ r.ministry = "To be identified" /\ r.ministry_id = "To be identified"
              /\ r.scraped_at = "now"
              /\ ret' = ret
              /\ pending' = Tail(pending)
              /\ pc' = IF Tail(pending) = <<>> THEN "list" ELSE "items"]_vars

\* the detail page of the first of two items of a page failed and both have a record, the
\* first with the label of its anchor as full_title, the second with the h1 of its page
C28_Witness ==
    /\ Len(commission_results) = 2
    /\ ~commission_results[1].detailed
    /\ commission_results[1].full_title = Strip(AnchorC.text)
    /\ commission_results[2].detailed
    /\ commission_results[2].full_title = PageH1
    /\ faults = 1

\* C23: during the crawl, between any two consecutive fetches (listing to detail, detail
\* to detail, detail to listing, the last listing page of a commission to the first of
\* the next, the commission sweep to the ministry sweep, ministry to ministry) a sleep of
\* delay_between_requests takes place.
C23_PolitenessDelay ==
    [][(/\ pc \in {"list", "items", "ministry"}
        /\ nListing' = nListing + 1 \/ nDetail' = nDetail + 1
        /\ lastFetch.kind \in {"listing", "detail", "ministry"})
            => lastFetch.delayed]_vars

\* C24: the commission filters are visited in the order of the list; within a commission
\* the requested page indices are 0, 1, 2, ... with none skipped or repeated; no ministry
\* filter is fetched before the pass of the last commission has ended; the ministry
\* filters are then visited in the order of their list, page index 0 of each, and only
\* if at least one record was collected.
C24_CrawlOrder ==
    [][(pc \in {"list", "ministry"} /\ nListing' = nListing + 1) =>
          LET a == lastFetch
              b == lastFetch'
          IN  /\ b.kind \in {"listing", "ministry"}
              /\ a.kind \in {"none", "year"} =>
                    (b.kind = "listing" /\ b.filter = 1 /\ b.index = 0)
              /\ a.kind \in {"listing", "detail"} =>
                    \/ b.kind = "listing" /\ b.filter = a.filter /\ b.index = a.index + 1
                    \/ b.kind = "listing" /\ b.filter = a.filter + 1 /\ b.index = 0
                    \/ /\ b.kind = "ministry" /\ b.filter = 1 /\ b.index = 0
                       /\ a.filter = NumCommissions
                       /\ pc = "ministry" /\ commission_results = <<>>
              /\ a.kind = "ministry" =>
                    (b.kind = "ministry" /\ b.filter = a.filter + 1 /\ b.index = 0)
              /\ b.kind = "ministry" => results # <<>>
              /\ b.filter <= (IF b.kind = "listing" THEN NumCommissions
                              ELSE NumMinistries)]_vars

\* the first commission was requested pages 0 and 1, the second commission followed, and
\* the last ministry filter has been fetched
C24_Witness ==
    /\ lastFetch.kind = "ministry" /\ lastFetch.filter = NumMinistries
    /\ remote[1, 2].served /\ remote[2, 1].served
    /\ results # <<>>
    /\ pc = "finish"

\* C27: after the step of a ministry filter whose page has content, every collected
\* record whose absolute url is what an href of an anchor of that page resolves to
\* against the base URL of the site carries the description and the id of that ministry;
\* a site-relative href, the form the listing parser resolves, matches the record.
C27_MinistryLinkMatching ==
    (lastFetch.kind = "ministry" /\ lastFetch.delayed) =>
        \A i \in 1..Len(results), k \in 1..Len(lastFetch.hrefs) :
            urljoin(base_url, lastFetch.hrefs[k]) = results[i].url =>
                /\ results[i].ministry = ministry_approaches[lastFetch.filter].description
                /\ results[i].ministry_id = ministry_approaches[lastFetch.filter].ministry_id

----------------------------------------------------------------------------
(* C10 *)

\* w is digits, sep, digits
IsNumber(w, sep) ==
    \E p \in 2..(Len(w) - 1) :
        /\ w[p] = sep
        /\ \A q \in 1..Len(w) : q # p => w[q] \in Digits

\* the substring s[i..j] is an occurrence of form k (1: N°-prefixed dotted, 2: N°-prefixed
\* slash, 3: bare dotted, 4: bare slash) whose number is s[n..j]; the
\* occurrence is maximal to the right (a greedy \d+ stops only where no digit follows)
IsFormOccurrence(s, k, i, n, j) ==
    /\ 1 <= i /\ i <= n /\ n < j /\ j <= Len(s)
    /\ IsNumber(SubSeq(s, n, j), IF k \in {1, 3} THEN "." ELSE "/")
    /\ CharAt(s, j + 1) \notin Digits
    /\ IF k \in {1, 2}
       THEN /\ n >= i + 2
            /\ s[i] = "N" /\ s[i + 1] = "°"
            /\ \A q \in (i + 2)..(n - 1) : s[q] \in Whitespace
       ELSE n = i

\* some substring of s has form k
HasForm(s, k) ==
    \E i \in 1..Len(s), n \in 1..Len(s), j \in 1..Len(s) : IsFormOccurrence(s, k, i, n, j)

\* the number of the leftmost occurrence of form k in s
LeftmostNumber(s, k) ==
    LET occ == { <<i, n, j>> \in (1..Len(s)) \X (1..Len(s)) \X (1..Len(s)) :
                    IsFormOccurrence(s, k, i, n, j) }
        first == CHOOSE o \in occ : \A o2 \in occ : o[1] <= o2[1]
    IN  SubSeq(s, first[2], first[3])

\* C10: extract_law_number returns the number of the leftmost occurrence of the first
\* form, in the order N°-dotted, N°-slash, bare dotted, bare slash, that occurs anywhere
\* in the text, wherever a lower-priority form occurs, and the empty string when no form
\* occurs; a text with both "N°03.25" and a bare "12/34" yields "03.25".
C10_PatternPrecedence ==
    lawCalled =>
        /\ (\A k \in 1..4 : ~HasForm(lawText, k)) => lawOut = <<>>
        /\ \A k \in 1..4 :
              (HasForm(lawText, k) /\ \A h \in 1..(k - 1) : ~HasForm(lawText, h))
                  => lawOut = LeftmostNumber(lawText, k)
        /\ lawText \in ExampleTexts => lawOut = <<"0", "3", ".", "2", "5">>

\* a bare slash form stands before the N°-dotted form, and the N°-dotted number is returned
C10_Witness ==
    /\ lawCalled
    /\ lawOut = <<"1", ".", "2">>
    /\ lawText = <<"3", "/", "4", " ", "N", "°", "1", ".", "2">>

====
